---- MODULE Spec2Model ----
(***************************************************************************)
(* RnnDocReader (drqa/rnn_reader_RN_5.py): construction of the reader from *)
(* an option dictionary and an optional pretrained embedding table, the    *)
(* train/eval mode switch inherited from nn.Module, and the forward pass.  *)
(* Tensors are modelled by their shape and by the arguments, random        *)
(* dropout draws and parameter tables their values are computed from.      *)
(***************************************************************************)
EXTENDS Integers, Sequences, FiniteSets, TLC

VARIABLES reader, training, last, hist

vars == <<reader, training, last, hist>>

----------------------------------------------------------------------------
(* Bounds of the explored option and input spaces.                         *)

MaxTune == 2
MaxRows == 4
MaxLayers == 2
MaxRatio == 3
MaxBatch == 2
MaxLen == 2
EmbeddingDim == 2
NumFeatures == 1
PosDim == 1
NerDim == 2
NumObjects == 2

HiddenSizes == {2, 3}
MinRows == 3
EmbeddingWidths == {EmbeddingDim, EmbeddingDim + 1}
QuestionMerges == {"avg", "self_attn", "max"}
DropoutRates == {0, 3}
\* The states the random number generator can be in when forward is called.
Draws == {1, 2}

----------------------------------------------------------------------------
(* Options and the embedding argument.                                     *)

NoEmbedding == [given |-> FALSE, rows |-> <<>>, dim |-> 0]

\* A pretrained table: its rows (named by their 0-based index) and its width.
EmbeddingTable(n, d) == [given |-> TRUE, rows |-> [i \in 1..n |-> i - 1], dim |-> d]

Embeddings ==
    {NoEmbedding} \cup
    {EmbeddingTable(n, d) : n \in MinRows..MaxRows, d \in EmbeddingWidths}

OptFixed ==
    [vocab_size |-> MaxRows, embedding_dim |-> EmbeddingDim,
     pos_size |-> 2, pos_dim |-> PosDim, ner_size |-> 2, ner_dim |-> NerDim,
     num_features |-> NumFeatures, num_objects |-> NumObjects,
     dropout_rnn_output |-> 0,
     rnn_type |-> "lstm", rnn_padding |-> FALSE]

OptRecord(pw, fe, tp, pos, ner, qe, hs, dl, ql, cc, rr, qm, de, dr) ==
    [pretrained_words |-> pw, fix_embeddings |-> fe, tune_partial |-> tp,
     vocab_size |-> OptFixed.vocab_size, embedding_dim |-> OptFixed.embedding_dim,
     pos |-> pos, pos_size |-> OptFixed.pos_size, pos_dim |-> OptFixed.pos_dim,
     ner |-> ner, ner_size |-> OptFixed.ner_size, ner_dim |-> OptFixed.ner_dim,
     use_qemb |-> qe, num_features |-> OptFixed.num_features,
     hidden_size |-> hs, doc_layers |-> dl, question_layers |-> ql,
     dropout_rnn |-> dr,
     dropout_rnn_output |-> OptFixed.dropout_rnn_output,
     dropout_emb |-> de, concat_rnn_layers |-> cc,
     rnn_type |-> OptFixed.rnn_type, rnn_padding |-> OptFixed.rnn_padding,
     num_objects |-> OptFixed.num_objects, reduction_ratio |-> rr,
     question_merge |-> qm]

\* Every combination of the options that decide what construction builds.
WideOpts ==
    {OptRecord(pw, fe, tp, pos, ner, qe, hs, dl, ql, cc, rr, qm, 0, 0) :
        pw \in BOOLEAN, fe \in BOOLEAN, tp \in 0..MaxTune,
        pos \in BOOLEAN, ner \in BOOLEAN, qe \in BOOLEAN,
        hs \in HiddenSizes, dl \in 1..MaxLayers, ql \in 1..MaxLayers,
        cc \in BOOLEAN, rr \in 1..MaxRatio, qm \in QuestionMerges}

\* Every combination of the options that decide what forward reads.
FlowOpts ==
    {OptRecord(FALSE, FALSE, 0, pos, ner, qe, 2, 1, 1, FALSE, 2,
               IF qe THEN "self_attn" ELSE "avg", de, 0) :
        pos \in BOOLEAN, ner \in BOOLEAN, qe \in BOOLEAN, de \in DropoutRates}

----------------------------------------------------------------------------
(* __init__                                                                *)

RNN_TYPES == {"lstm", "gru", "rnn"}

\* A sub-module that was not constructed, and one constructed for an input
\* width and an output width.
None == [present |-> FALSE, in_size |-> 0, out_size |-> 0]
Layer(in_size, out_size) ==
    [present |-> TRUE, in_size |-> in_size, out_size |-> out_size]

\* nn.Embedding(num, dim), layers.RelationNetwork(hidden_size, output_size) and
\* layers.BilinearSeqAttn(x_size, y_size), by their constructor arguments.
NoTable == [present |-> FALSE, num |-> 0, dim |-> 0]
Table(num, dim) == [present |-> TRUE, num |-> num, dim |-> dim]
NoRelation == [present |-> FALSE, hidden_size |-> 0, output_size |-> 0]
Relation(hidden_size, output_size) ==
    [present |-> TRUE, hidden_size |-> hidden_size, output_size |-> output_size]
NoBilinear == [present |-> FALSE, x_size |-> 0, y_size |-> 0]
Bilinear(x_size, y_size) == [present |-> TRUE, x_size |-> x_size, y_size |-> y_size]

NoFixed == [registered |-> FALSE, rows |-> <<>>]

\* assert embedding is not None
EmbeddingGiven(embedding) == embedding.given

FixEmbeddingsAssert_Dropped(opt) == TRUE

\* assert opt['tune_partial'] == 0
FixEmbeddingsAssert(opt) == opt.tune_partial = 0

\* assert opt['tune_partial'] + 2 < embedding.size(0)
TunePartialAssert(opt, embedding) == opt.tune_partial + 2 < Len(embedding.rows)

fixed_embedding_BeyondThreshold(opt, embedding) ==
    SubSeq(embedding.rows, (opt.tune_partial + 1) + 1, Len(embedding.rows))

\* embedding[opt['tune_partial'] + 2:]
fixed_embedding(opt, embedding) ==
    SubSeq(embedding.rows, (opt.tune_partial + 2) + 1, Len(embedding.rows))

\* The word-embedding block: the table, whether it takes gradients, the
\* buffer of fixed rows, or the assertion that fails.
WordEmbeddings(opt, embedding) ==
    IF opt.pretrained_words
    THEN IF ~EmbeddingGiven(embedding)
         THEN [error |-> "AssertionError", num |-> 0, dim |-> 0,
               requires_grad |-> TRUE, fixed |-> NoFixed]
         ELSE IF opt.fix_embeddings
         THEN IF ~FixEmbeddingsAssert(opt)
              THEN [error |-> "AssertionError", num |-> 0, dim |-> 0,
                    requires_grad |-> TRUE, fixed |-> NoFixed]
              ELSE [error |-> "", num |-> Len(embedding.rows), dim |-> embedding.dim,
                    requires_grad |-> FALSE, fixed |-> NoFixed]
         ELSE IF opt.tune_partial > 0
         THEN IF ~TunePartialAssert(opt, embedding)
              THEN [error |-> "AssertionError", num |-> 0, dim |-> 0,
                    requires_grad |-> TRUE, fixed |-> NoFixed]
              ELSE [error |-> "", num |-> Len(embedding.rows), dim |-> embedding.dim,
                    requires_grad |-> TRUE,
                    fixed |-> [registered |-> TRUE,
                               rows |-> fixed_embedding(opt, embedding)]]
         ELSE [error |-> "", num |-> Len(embedding.rows), dim |-> embedding.dim,
               requires_grad |-> TRUE, fixed |-> NoFixed]
    ELSE [error |-> "", num |-> opt.vocab_size, dim |-> opt.embedding_dim,
          requires_grad |-> TRUE, fixed |-> NoFixed]

ConstructsPos_Always(opt) == TRUE

\* if opt['pos']: self.pos_embedding = nn.Embedding(...)
ConstructsPos(opt) == opt.pos

\* if opt['ner']: self.ner_embedding = nn.Embedding(...)
ConstructsNer(opt) == opt.ner

doc_input_size(opt) ==
    opt.embedding_dim + opt.num_features
    + (IF opt.use_qemb THEN opt.embedding_dim ELSE 0)
    + (IF opt.pos THEN opt.pos_dim ELSE 0)
    + (IF opt.ner THEN opt.ner_dim ELSE 0)

doc_hidden_size(opt) ==
    IF opt.concat_rnn_layers
    THEN (2 * opt.hidden_size) * opt.doc_layers
    ELSE 2 * opt.hidden_size

question_hidden_size(opt) ==
    IF opt.concat_rnn_layers
    THEN (2 * opt.hidden_size) * opt.question_layers
    ELSE 2 * opt.hidden_size

\* doc_hidden_size//reduction_ratio
doc_reduced_size(opt) == doc_hidden_size(opt) \div opt.reduction_ratio

\* question_hidden_size//reduction_ratio
question_reduced_size(opt) == question_hidden_size(opt) \div opt.reduction_ratio

\* 3 * doc_hidden_size//reduction_ratio: the product is taken first
relation_hidden_size(opt) == (3 * doc_hidden_size(opt)) \div opt.reduction_ratio

QuestionMergeSupported_Any(opt) == TRUE

\* opt['question_merge'] in ['avg', 'self_attn']
QuestionMergeSupported(opt) == opt.question_merge \in {"avg", "self_attn"}

Blank(opt, embedding, error) ==
    [status |-> error, opt |-> opt, arg |-> embedding,
     embedding |-> [present |-> FALSE, num |-> 0, dim |-> 0, requires_grad |-> TRUE],
     fixed_embedding |-> NoFixed,
     pos_embedding |-> NoTable, ner_embedding |-> NoTable, qemb_match |-> None,
     doc_rnn |-> None, question_rnn |-> None,
     doc_1by1conv |-> None, doc_self_attn |-> None,
     question_1by1conv |-> None, self_attn |-> None,
     relationNet |-> NoRelation, start_attn |-> NoBilinear, end_attn |-> NoBilinear]

\* RnnDocReader.__init__(opt, embedding=embedding): the constructed reader,
\* or the exception that ends construction.
RnnDocReader(opt, embedding) ==
    LET we == WordEmbeddings(opt, embedding) IN
    IF we.error # "" THEN Blank(opt, embedding, we.error)
    ELSE IF opt.rnn_type \notin RNN_TYPES THEN Blank(opt, embedding, "KeyError")
    ELSE IF ~QuestionMergeSupported(opt)
    THEN Blank(opt, embedding, "NotImplementedError")
    ELSE
    [status |-> "ok", opt |-> opt, arg |-> embedding,
     embedding |-> [present |-> TRUE, num |-> we.num, dim |-> we.dim,
                    requires_grad |-> we.requires_grad],
     fixed_embedding |-> we.fixed,
     pos_embedding |-> IF ConstructsPos(opt)
                       THEN Table(opt.pos_size, opt.pos_dim) ELSE NoTable,
     ner_embedding |-> IF ConstructsNer(opt)
                       THEN Table(opt.ner_size, opt.ner_dim) ELSE NoTable,
     qemb_match |-> IF opt.use_qemb
                    THEN Layer(opt.embedding_dim, opt.embedding_dim) ELSE None,
     doc_rnn |-> Layer(doc_input_size(opt), doc_hidden_size(opt)),
     question_rnn |-> Layer(opt.embedding_dim, question_hidden_size(opt)),
     doc_1by1conv |-> Layer(doc_hidden_size(opt), doc_reduced_size(opt)),
     doc_self_attn |-> Layer(doc_reduced_size(opt), opt.num_objects),
     question_1by1conv |-> Layer(question_hidden_size(opt),
                                 question_reduced_size(opt)),
     self_attn |-> IF opt.question_merge = "self_attn"
                   THEN Layer(question_reduced_size(opt), 1) ELSE None,
     relationNet |-> Relation(relation_hidden_size(opt), doc_reduced_size(opt)),
     start_attn |-> Bilinear(doc_reduced_size(opt), question_reduced_size(opt)),
     end_attn |-> Bilinear(doc_reduced_size(opt), question_reduced_size(opt))]

NotConstructed == Blank(OptRecord(FALSE, FALSE, 0, FALSE, FALSE, FALSE, 2, 1, 1,
                                  FALSE, 1, "avg", 0, 0), NoEmbedding, "none")

----------------------------------------------------------------------------
(* Tensors: a shape, the forward arguments and dropout draws the values    *)
(* are computed from, and the parameter tables they were looked up in.     *)

Arg(dims, data) == [dims |-> dims, data |-> data]

Unread == Arg(<<>>, "")
UnreadMask == Arg(<<>>, {})

NoReads ==
    [x1 |-> Unread, x1_f |-> Unread, x1_pos |-> Unread, x1_ner |-> Unread,
     x1_mask |-> UnreadMask, x2 |-> Unread, x2_mask |-> UnreadMask,
     drop_x1 |-> 0, drop_x2 |-> 0, drop_pos |-> 0, drop_ner |-> 0,
     drop_doc_rnn |-> 0, drop_question_rnn |-> 0]

Join(r1, r2) == [f \in DOMAIN r1 |-> IF r1[f] = NoReads[f] THEN r2[f] ELSE r1[f]]

Tensor(dims, reads, tables) == [dims |-> dims, reads |-> reads, tables |-> tables]

Width(t) == t.dims[Len(t.dims)]

\* An argument of forward, used as a tensor.
Input(name, arg) == Tensor(arg.dims, [NoReads EXCEPT ![name] = arg], {})

WithMask(t, name, mask) == [t EXCEPT !.reads = Join(@, [NoReads EXCEPT ![name] = mask])]

\* nn.Embedding: one row of the table per index.
Embed(table, tablename, name, arg) ==
    Tensor(arg.dims \o <<table.dim>>, [NoReads EXCEPT ![name] = arg], {tablename})

DropoutActive_Always(mode) == TRUE

\* training=self.training
DropoutActive(mode) == mode

\* nn.functional.dropout(x, p=p, training=...): a fresh random mask when
\* active, the identity otherwise.
Dropout(t, p, mode, site, draw) ==
    IF DropoutActive(mode) /\ p > 0 THEN [t EXCEPT !.reads[site] = draw] ELSE t

RECURSIVE CatWidth(_)
CatWidth(list) == IF list = <<>> THEN 0 ELSE Width(Head(list)) + CatWidth(Tail(list))

RECURSIVE CatReads(_)
CatReads(list) ==
    IF list = <<>> THEN NoReads ELSE Join(Head(list).reads, CatReads(Tail(list)))

RECURSIVE CatTables(_)
CatTables(list) ==
    IF list = <<>> THEN {} ELSE Head(list).tables \cup CatTables(Tail(list))

\* torch.cat(list, 2)
Cat2(list) ==
    Tensor(<<list[1].dims[1], list[1].dims[2], CatWidth(list)>>,
           CatReads(list), CatTables(list))

\* layers.SeqAttnMatch: for every document token a weighted sum of the
\* question embeddings, question padding masked out.
SeqAttnMatch(x, y, y_mask) ==
    WithMask(Tensor(<<x.dims[1], x.dims[2], Width(y)>>, Join(x.reads, y.reads),
                    x.tables \cup y.tables), "x2_mask", y_mask)

\* layers.StackedBRNN: both directions of every layer, all layers
\* concatenated or the last one; its dropout is active in training mode only.
StackedBRNN(layer, dropout_rate, x, maskname, x_mask, mode, site, draw) ==
    LET h == WithMask(Tensor(<<x.dims[1], x.dims[2], layer.out_size>>,
                             x.reads, x.tables), maskname, x_mask)
    IN IF mode /\ dropout_rate > 0 THEN [h EXCEPT !.reads[site] = draw] ELSE h

\* layers.Conv1by1DimReduce: a position-wise projection.
Conv1by1DimReduce(layer, x) ==
    Tensor(<<x.dims[1], x.dims[2], layer.out_size>>, x.reads, x.tables)

\* layers.doc_LinearSeqAttn: one masked attention distribution per object.
doc_LinearSeqAttn(layer, x, x_mask) ==
    WithMask(Tensor(<<x.dims[1], x.dims[2], layer.out_size>>, x.reads, x.tables),
             "x1_mask", x_mask)

\* torch.bmm(w.transpose(1, 2), x)
BmmTransposed(w, x) ==
    Tensor(<<w.dims[1], w.dims[3], x.dims[3]>>, Join(w.reads, x.reads),
           w.tables \cup x.tables)

\* layers.uniform_weights: the same weight on every unpadded position.
uniform_weights(x, x_mask) ==
    Tensor(<<x.dims[1], x.dims[2]>>, [NoReads EXCEPT !["x2_mask"] = x_mask], {})

\* layers.LinearSeqAttn: one masked attention distribution.
LinearSeqAttn(x, x_mask) ==
    WithMask(Tensor(<<x.dims[1], x.dims[2]>>, x.reads, x.tables), "x2_mask", x_mask)

\* layers.weighted_avg
weighted_avg(x, weights) ==
    Tensor(<<x.dims[1], x.dims[3]>>, Join(x.reads, weights.reads),
           x.tables \cup weights.tables)


\* The width layers.RelationNetwork feeds its shared transform: a pair of
\* object vectors and the question summary, concatenated.
RelationInputWidth(object_width, question_width) ==
    2 * object_width + question_width

\* layers.RelationNetwork: one fused vector per object.
RelationNetwork(layer, objects, question) ==
    Tensor(<<objects.dims[1], objects.dims[2], layer.output_size>>,
           Join(objects.reads, question.reads), objects.tables \cup question.tables)

Sentinel == "-inf"

Positions(dims) == (1..dims[1]) \X (1..dims[2])

\* layers.BilinearSeqAttn: one raw logit per document position, the padded
\* positions filled with the sentinel.
BilinearSeqAttn(head, x, y, x_mask) ==
    LET reads == Join(Join(x.reads, y.reads), [NoReads EXCEPT !["x1_mask"] = x_mask])
    IN [dims |-> <<x.dims[1], x.dims[2]>>,
        val |-> [p \in Positions(x.dims) |->
                    IF p \in x_mask.data
                    THEN [fill |-> Sentinel, head |-> "", reads |-> NoReads]
                    ELSE [fill |-> "", head |-> head, reads |-> reads]],
        tables |-> x.tables \cup y.tables]

NoScores == [dims |-> <<>>, val |-> [p \in {} |-> 0], tables |-> {}]

----------------------------------------------------------------------------
(* forward                                                                 *)

\* x1_emb = dropout(self.embedding(x1))
x1_emb(r, inp, mode, nz) ==
    LET e == Embed(r.embedding, "embedding", "x1", inp.x1)
    IN IF r.opt.dropout_emb > 0
       THEN Dropout(e, r.opt.dropout_emb, mode, "drop_x1", nz) ELSE e

\* x2_emb = dropout(self.embedding(x2))
x2_emb(r, inp, mode, nz) ==
    LET e == Embed(r.embedding, "embedding", "x2", inp.x2)
    IN IF r.opt.dropout_emb > 0
       THEN Dropout(e, r.opt.dropout_emb, mode, "drop_x2", nz) ELSE e

\* x1_pos_emb = dropout(self.pos_embedding(x1_pos))
x1_pos_emb(r, inp, mode, nz) ==
    LET e == Embed(r.pos_embedding, "pos_embedding", "x1_pos", inp.x1_pos)
    IN IF r.opt.dropout_emb > 0
       THEN Dropout(e, r.opt.dropout_emb, mode, "drop_pos", nz) ELSE e

\* x1_ner_emb = dropout(self.ner_embedding(x1_ner))
x1_ner_emb(r, inp, mode, nz) ==
    LET e == Embed(r.ner_embedding, "ner_embedding", "x1_ner", inp.x1_ner)
    IN IF r.opt.dropout_emb > 0
       THEN Dropout(e, r.opt.dropout_emb, mode, "drop_ner", nz) ELSE e

\* if self.opt['pos']:
ReadsPos(opt) == opt.pos

\* if self.opt['ner']:
ReadsNer(opt) == opt.ner

\* drnn_input_list, as torch.cat receives it.
drnn_input_list(r, inp, mode, nz) ==
    LET list0 == <<x1_emb(r, inp, mode, nz), Input("x1_f", inp.x1_f)>>
        list1 == IF r.opt.use_qemb
                 THEN Append(list0, SeqAttnMatch(x1_emb(r, inp, mode, nz),
                                                 x2_emb(r, inp, mode, nz), inp.x2_mask))
                 ELSE list0
        list2 == IF ReadsPos(r.opt)
                 THEN Append(list1, x1_pos_emb(r, inp, mode, nz)) ELSE list1
    IN IF ReadsNer(r.opt) THEN Append(list2, x1_ner_emb(r, inp, mode, nz)) ELSE list2

\* self.start_attn(doc_hiddens, doc_question_hidden, x1_mask)
StartAttnMask(inp) == inp.x1_mask

EndAttnMask_Unmasked(inp) == [inp.x1_mask EXCEPT !.data = {}]

\* self.end_attn(doc_hiddens, doc_question_hidden, x1_mask)
EndAttnMask(inp) == inp.x1_mask

\* The first check of a forward pass that fails, as <<stage, exception>>.
RECURSIVE FirstError(_)
FirstError(checks) ==
    IF checks = <<>> THEN <<"", "">>
    ELSE IF Head(checks)[1] THEN FirstError(Tail(checks))
    ELSE <<Head(checks)[2], Head(checks)[3]>>

\* RnnDocReader.forward(x1, x1_f, x1_pos, x1_ner, x1_mask, x2, x2_mask) in
\* mode self.training, with the random number generator in state nz.
Forward(r, inp, mode, nz) ==
    LET opt == r.opt
        x1e == x1_emb(r, inp, mode, nz)
        x2e == x2_emb(r, inp, mode, nz)
        drnn_input == Cat2(drnn_input_list(r, inp, mode, nz))
        doc_hiddens0 == StackedBRNN(r.doc_rnn, opt.dropout_rnn, drnn_input, "x1_mask",
                                    inp.x1_mask, mode, "drop_doc_rnn", nz)
        doc_hiddens == Conv1by1DimReduce(r.doc_1by1conv, doc_hiddens0)
        doc_merge_weights == doc_LinearSeqAttn(r.doc_self_attn, doc_hiddens, inp.x1_mask)
        doc_hiddens_compact == BmmTransposed(doc_merge_weights, doc_hiddens)
        question_hiddens0 == StackedBRNN(r.question_rnn, opt.dropout_rnn, x2e,
                                         "x2_mask", inp.x2_mask, mode,
                                         "drop_question_rnn", nz)
        question_hiddens == Conv1by1DimReduce(r.question_1by1conv, question_hiddens0)
        q_merge_weights == IF opt.question_merge = "avg"
                           THEN uniform_weights(question_hiddens, inp.x2_mask)
                           ELSE LinearSeqAttn(question_hiddens, inp.x2_mask)
        question_hidden == weighted_avg(question_hiddens, q_merge_weights)
        doc_question_hidden == RelationNetwork(r.relationNet, doc_hiddens_compact,
                                               question_hidden)
        start_scores == BilinearSeqAttn("start", doc_hiddens, doc_question_hidden,
                                        StartAttnMask(inp))
        end_scores == BilinearSeqAttn("end", doc_hiddens, doc_question_hidden,
                                      EndAttnMask(inp))
        err == FirstError(<<
            <<~opt.use_qemb \/ r.qemb_match.present, "qemb_match", "AttributeError">>,
            <<~opt.use_qemb \/ (Width(x1e) = r.qemb_match.in_size
                                /\ Width(x2e) = r.qemb_match.in_size),
              "qemb_match", "RuntimeError">>,
            <<~ReadsPos(opt) \/ r.pos_embedding.present,
              "pos_embedding", "AttributeError">>,
            <<~ReadsNer(opt) \/ r.ner_embedding.present,
              "ner_embedding", "AttributeError">>,
            <<Width(drnn_input) = r.doc_rnn.in_size, "doc_rnn", "RuntimeError">>,
            <<Width(doc_hiddens0) = r.doc_1by1conv.in_size,
              "doc_1by1conv", "RuntimeError">>,
            <<Width(doc_hiddens) = r.doc_self_attn.in_size,
              "doc_self_attn", "RuntimeError">>,
            <<Width(x2e) = r.question_rnn.in_size, "question_rnn", "RuntimeError">>,
            <<Width(question_hiddens0) = r.question_1by1conv.in_size,
              "question_1by1conv", "RuntimeError">>,
            <<opt.question_merge \in {"avg", "self_attn"},
              "q_merge_weights", "UnboundLocalError">>,
            <<opt.question_merge # "self_attn" \/ r.self_attn.present,
              "self_attn", "AttributeError">>,
            <<opt.question_merge # "self_attn"
              \/ Width(question_hiddens) = r.self_attn.in_size,
              "self_attn", "RuntimeError">>,
            <<RelationInputWidth(Width(doc_hiddens_compact), Width(question_hidden))
              = r.relationNet.hidden_size, "relationNet", "RuntimeError">>,
            <<Width(doc_hiddens) = r.start_attn.x_size
              /\ Width(doc_question_hidden) = r.start_attn.y_size,
              "start_attn", "RuntimeError">>,
            <<Width(doc_hiddens) = r.end_attn.x_size
              /\ Width(doc_question_hidden) = r.end_attn.y_size,
              "end_attn", "RuntimeError">> >>)
    IN [called |-> TRUE, inp |-> inp, training |-> mode,
        status |-> IF err[2] = "" THEN "ok" ELSE err[2], stage |-> err[1],
        start_scores |-> IF err[2] = "" THEN start_scores ELSE NoScores,
        end_scores |-> IF err[2] = "" THEN end_scores ELSE NoScores]

----------------------------------------------------------------------------
(* Inputs of forward.                                                      *)

AllPositions(B, L) == (1..B) \X (1..L)

InputRecord(B, Ld, Lq, pos, ner, x1_mask, x2_mask) ==
    [x1 |-> Arg(<<B, Ld>>, "d"), x1_f |-> Arg(<<B, Ld, NumFeatures>>, "f"),
     x1_pos |-> Arg(<<B, Ld>>, pos), x1_ner |-> Arg(<<B, Ld>>, ner),
     x1_mask |-> Arg(<<B, Ld>>, x1_mask),
     x2 |-> Arg(<<B, Lq>>, "q"), x2_mask |-> Arg(<<B, Lq>>, x2_mask)]

\* Every batch size and document length; no padding, the last position of
\* the last document padded, or every position padded.
ShapeInputs ==
    UNION {{InputRecord(s[1], s[2], MaxLen, "p1", "n1", m, {}) :
                m \in {{}, {s}, AllPositions(s[1], s[2])}} :
              s \in AllPositions(MaxBatch, MaxLen)}

\* One document, unpadded or with its last position padded, and two values
\* of each tag argument.
FlowInputs ==
    {InputRecord(1, MaxLen, 1, pos, ner, m, {}) :
        pos \in {"p1", "p2"}, ner \in {"n1", "n2"}, m \in {{}, {<<1, MaxLen>>}}}

ArgNames == {"x1", "x1_f", "x1_pos", "x1_ner", "x1_mask", "x2", "x2_mask"}

----------------------------------------------------------------------------
(* The state machine.                                                      *)

NoCall ==
    [called |-> FALSE, inp |-> InputRecord(1, 1, 1, "p1", "n1", {}, {}),
     training |-> TRUE, status |-> "", stage |-> "",
     start_scores |-> NoScores, end_scores |-> NoScores]

NoHist == [repeat |-> FALSE, diff |-> {}, prev_training |-> TRUE, same_out |-> FALSE]

Init ==
    /\ reader = NotConstructed
    /\ training = TRUE
    /\ last = NoCall
    /\ hist = NoHist

\* reader = RnnDocReader(opt, embedding=embedding); a new module is in
\* training mode.
Construct(opt, embedding) ==
    /\ reader.status = "none"
    /\ reader' = RnnDocReader(opt, embedding)
    /\ training' = TRUE
    /\ UNCHANGED <<last, hist>>

\* reader.train()
Train ==
    /\ reader.status = "ok"
    /\ training' = TRUE
    /\ UNCHANGED <<reader, last, hist>>

\* reader.eval()
Eval ==
    /\ reader.status = "ok"
    /\ training' = FALSE
    /\ UNCHANGED <<reader, last, hist>>

\* reader(x1, x1_f, x1_pos, x1_ner, x1_mask, x2, x2_mask); hist compares the
\* call with the one before it.
ForwardCall(inp, nz) ==
    /\ reader.status = "ok"
    /\ last' = Forward(reader, inp, training, nz)
    /\ hist' = IF last.called
               THEN [repeat |-> TRUE,
                     diff |-> {a \in ArgNames : inp[a] # last.inp[a]},
                     prev_training |-> last.training,
                     same_out |-> /\ last'.status = last.status
                                  /\ last'.start_scores = last.start_scores
                                  /\ last'.end_scores = last.end_scores]
               ELSE NoHist
    /\ UNCHANGED <<reader, training>>

\* The embedding argument is read only when pretrained_words is set.
EmbeddingsFor(opt) == IF opt.pretrained_words THEN Embeddings ELSE {NoEmbedding}

\* Every option combination, followed by one forward call.  No dropout is
\* configured in WideOpts, so one generator state stands for all.
Next ==
    \/ /\ reader.status = "none"
       /\ \E opt \in WideOpts : \E embedding \in EmbeddingsFor(opt) :
             Construct(opt, embedding)
    \/ /\ ~last.called
       /\ \E inp \in ShapeInputs : ForwardCall(inp, 1)

Spec == Init /\ [][Next]_vars

\* The options forward branches on, mode switches and repeated forward calls.
NextFlow ==
    \/ /\ reader.status = "none"
       /\ \E opt \in FlowOpts : Construct(opt, NoEmbedding)
    \/ Train
    \/ Eval
    \/ \E inp \in FlowInputs, nz \in Draws : ForwardCall(inp, nz)

SpecFlow == Init /\ [][NextFlow]_vars

----------------------------------------------------------------------------
(* Properties.                                                             *)

Attempted == reader.status # "none"
Constructed == reader.status = "ok"
Failed == reader.status \in {"AssertionError", "KeyError", "NotImplementedError"}
Returned == last.called /\ last.status = "ok"

BothPolicies == reader.opt.fix_embeddings /\ reader.opt.tune_partial > 0

C2_UnrecognizedMergeFails ==
    /\ (Attempted /\ reader.opt.question_merge \notin {"avg", "self_attn"})
          => /\ reader.status \in {"AssertionError", "NotImplementedError"}
             /\ (~reader.opt.pretrained_words => reader.status = "NotImplementedError")
    /\ last.called => /\ reader.opt.question_merge \in {"avg", "self_attn"}
                      /\ last.stage # "q_merge_weights"

C2_Witness ==
    /\ reader.status = "NotImplementedError"
    /\ reader.opt.question_merge = "max"
    /\ ~last.called

\* C3: every forward call on a constructed reader returns start and end
\* logits of shape [batch, document length].
C3_ForwardShape ==
    last.called => /\ last.status = "ok"
                   /\ last.start_scores.dims = last.inp.x1.dims
                   /\ last.end_scores.dims = last.inp.x1.dims

\* C4: in what forward returns, both logit arrays have the shape of the
\* document, every position the document mask marks holds the sentinel in
\* both, and the two heads fill the same positions.
C4_MaskedSentinel ==
    Returned =>
        /\ last.start_scores.dims = last.inp.x1.dims
        /\ last.end_scores.dims = last.inp.x1.dims
        /\ \A p \in Positions(last.inp.x1.dims) :
              /\ p \in last.inp.x1_mask.data
                    => /\ last.start_scores.val[p].fill = Sentinel
                       /\ last.end_scores.val[p].fill = Sentinel
              /\ (last.start_scores.val[p].fill = Sentinel)
                    <=> (last.end_scores.val[p].fill = Sentinel)

C4_Witness ==
    /\ Returned
    /\ last.inp.x1.dims = <<MaxBatch, MaxLen>>
    /\ last.inp.x1_mask.data = {<<MaxBatch, MaxLen>>}
    /\ last.end_scores.val[<<MaxBatch, MaxLen>>].fill = Sentinel
    /\ last.end_scores.val[<<1, 1>>].fill # Sentinel

\* C5: in every constructed reader the reduced width times reduction_ratio
\* is the encoder output width, on the document and on the question side.
C5_ReducedWidthExact ==
    Constructed =>
        /\ reader.doc_1by1conv.out_size * reader.opt.reduction_ratio
              = doc_hidden_size(reader.opt)
        /\ reader.question_1by1conv.out_size * reader.opt.reduction_ratio
              = question_hidden_size(reader.opt)

\* The returned logits were computed without the argument and the table.
Unused(arg, table) ==
    Returned =>
        /\ table \notin last.start_scores.tables \cup last.end_scores.tables
        /\ \A p \in Positions(last.inp.x1.dims) :
              /\ last.start_scores.val[p].reads[arg] = Unread
              /\ last.end_scores.val[p].reads[arg] = Unread

\* The last two calls were both made in inference mode and their inputs
\* differ in exactly the arguments args.
EvalCallsDiffering(args) ==
    /\ hist.repeat /\ hist.diff = args
    /\ ~last.training /\ ~hist.prev_training

\* C6: with pos (ner) disabled no POS (NER) table is constructed, forward
\* reads neither the table nor x1_pos (x1_ner), and two inference-mode calls
\* that differ only in that argument return the same logits.
C6_DisabledTagsIgnored ==
    Constructed =>
        /\ ~reader.opt.pos =>
              /\ ~reader.pos_embedding.present
              /\ Unused("x1_pos", "pos_embedding")
              /\ EvalCallsDiffering({"x1_pos"}) => hist.same_out
        /\ ~reader.opt.ner =>
              /\ ~reader.ner_embedding.present
              /\ Unused("x1_ner", "ner_embedding")
              /\ EvalCallsDiffering({"x1_ner"}) => hist.same_out

C6_Witness ==
    /\ Constructed /\ ~reader.opt.pos /\ reader.opt.ner
    /\ Returned /\ EvalCallsDiffering({"x1_pos"}) /\ hist.same_out

EmbeddingDropoutSites == {"drop_x1", "drop_x2", "drop_pos", "drop_ner"}

\* C7: a forward call made in inference mode, after any mode switches,
\* draws no embedding dropout mask, and two inference-mode calls with the
\* same input return the same logits.
C7_InferenceNoEmbeddingDropout ==
    /\ (Returned /\ ~last.training) =>
          \A p \in Positions(last.inp.x1.dims) : \A site \in EmbeddingDropoutSites :
              /\ last.start_scores.val[p].reads[site] = 0
              /\ last.end_scores.val[p].reads[site] = 0
    /\ EvalCallsDiffering({}) => hist.same_out

C7_Witness ==
    /\ Constructed /\ reader.opt.dropout_emb > 0 /\ reader.opt.pos
    /\ Returned /\ EvalCallsDiffering({}) /\ hist.same_out

PartialTuning ==
    /\ reader.opt.pretrained_words /\ reader.arg.given
    /\ ~reader.opt.fix_embeddings /\ reader.opt.tune_partial > 0

RowIds == {reader.arg.rows[i] : i \in 1..Len(reader.arg.rows)}
FrozenRows == {reader.fixed_embedding.rows[i] : i \in 1..Len(reader.fixed_embedding.rows)}
TrainableRows == IF reader.embedding.requires_grad THEN RowIds \ FrozenRows ELSE {}

\* C8, as stated: under partial tuning with threshold k the frozen rows are
\* the rows of index above k, the rows of index up to k stay trainable, and
\* construction fails if no row has an index above k.
C8_FrozenBeyondThreshold ==
    (Attempted /\ PartialTuning) =>
        LET k == reader.opt.tune_partial IN
        /\ {i \in RowIds : i > k} = {} => Failed
        /\ Constructed => /\ FrozenRows = {i \in RowIds : i > k}
                          /\ TrainableRows = {i \in RowIds : i <= k}

\* C8, amended: under partial tuning with threshold k the frozen rows are
\* the rows of index k + 2 and above, the rows of index up to k + 1 stay
\* trainable, and construction fails with an assertion error if no row has
\* an index of k + 2 or above.
C8_FrozenFromThresholdPlusTwo ==
    (Attempted /\ PartialTuning) =>
        LET k == reader.opt.tune_partial IN
        /\ {i \in RowIds : i >= k + 2} = {} => reader.status = "AssertionError"
        /\ Constructed => /\ reader.fixed_embedding.registered
                          /\ FrozenRows = {i \in RowIds : i >= k + 2}
                          /\ TrainableRows = {i \in RowIds : i <= k + 1}

C8_Witness ==
    /\ Constructed /\ PartialTuning
    /\ FrozenRows # {} /\ reader.opt.tune_partial + 1 \in TrainableRows

\* C9: in every constructed reader the document encoder's input width is the
\* width of the input forward concatenates for it, and the question
\* encoder's input width is the width of the word-embedding table.
C9_EncoderInputWidths ==
    Constructed =>
        /\ \A inp \in ShapeInputs :
              reader.doc_rnn.in_size
                 = Width(Cat2(drnn_input_list(reader, inp, training, 1)))
        /\ reader.question_rnn.in_size = reader.embedding.dim

\* C10: in every constructed reader the relation network's input width is
\* the width forward feeds it, and the width it outputs is the second-input
\* width of the start and of the end scorer.
C10_DownstreamWidths ==
    Constructed =>
        /\ reader.relationNet.hidden_size
              = RelationInputWidth(reader.doc_1by1conv.out_size,
                                   reader.question_1by1conv.out_size)
        /\ reader.relationNet.output_size = reader.start_attn.y_size
        /\ reader.relationNet.output_size = reader.end_attn.y_size

====
